---- MODULE Spec2Model ----
(***************************************************************************)
(* Workflow orchestration engine (Strands) of nist-mcp-server:             *)
(* src/src/nist_mcp/workflows/strands.py together with the Run Store       *)
(* write of src/src/nist_mcp/history/storage.py.                           *)
(*                                                                         *)
(* One WorkflowStrand is built from a bounded family of step lists and     *)
(* driven through WorkflowStrand.execute().  The coroutine is cut at its   *)
(* suspension points (asyncio.gather, asyncio.sleep); the steps of one     *)
(* gather interleave as asyncio tasks do.                                  *)
(***************************************************************************)
EXTENDS Naturals, FiniteSets, Sequences, TLC

\* ------------------------------------------------------------- bounds ----
\* Largest retry_count a step is built with.
MaxRetry == 1
\* Largest number of dependency edges of a strand.
MaxEdges == 2
\* Largest number of strands one orchestrator creates.
MaxStrands == 2
\* The latest clock second in which execute() is called again.
MaxClock == 2

\* ------------------------------------------------------ input domains ----
\* Step ids in the insertion order of WorkflowStrand.steps.
StepOrder == <<"A", "B", "C">>
StepIds == {StepOrder[i] : i \in 1..Len(StepOrder)}
\* An id that names no step of the strand.
Dangling == "X"
DepIds == StepIds \cup {Dangling}

RECURSIVE SumOver(_, _)
SumOver(f, S) ==
    IF S = {} THEN 0
    ELSE LET x == CHOOSE y \in S : TRUE IN f[x] + SumOver(f, S \ {x})

EdgeCount(d) == SumOver([s \in StepIds |-> Cardinality(d[s])], StepIds)

Graphs == {d \in [StepIds -> SUBSET DepIds] : EdgeCount(d) <= MaxEdges}

Index(s) == CHOOSE i \in 1..Len(StepOrder) : StepOrder[i] = s

\* ---------------------------------------------------------------- state --
VARIABLES
    depends_on,        \* WorkflowStep.depends_on, per step
    retry_count,       \* WorkflowStep.retry_count, per step
    handles,           \* TRUE iff the strand was given a monitor or data_loader object
    step_status,       \* WorkflowStep.status, per step
    attempts,          \* WorkflowStep.attempts, per step
    step_error,        \* WorkflowStep.error, per step
    step_result,       \* WorkflowStep.result, per step
    step_completed_at, \* WorkflowStep.completed_at is set, per step
    returned,          \* what each step.execute() of the current gather returned
    strand_status,     \* WorkflowStrand.status
    completed_at,      \* WorkflowStrand.completed_at is set
    errors,            \* WorkflowStrand.errors
    context,           \* WorkflowStrand.context
    executable_steps,  \* the list computed by the current loop iteration
    pc,                \* position of execute()
    exc,               \* the exception in flight / raised to the caller
    result,            \* what execute() returned to the caller
    workflow_runs,     \* rows of table workflow_runs, in insertion order
    now,               \* the clock second of the latest datetime.now() read;
                       \* execute() is called in second 0
    strand_definitions, \* StrandsOrchestrator.strand_definitions
    strands,           \* the WorkflowStrand objects create_strand has built
    active_strands,    \* StrandsOrchestrator.active_strands: id -> object
    driven,            \* the object handed to execute_strand_async, 0 if none
    finished,          \* execute_strand_async has returned or raised
    workflows,         \* ids of the rows of table workflows
    last_call,         \* the exception the latest call of the orchestrator's
                       \* public surface raised, with the call; NoCall if it
                       \* returned
    template,          \* the built-in step builder whose actions are run
    target_controls,   \* context["target_controls"]
    family,            \* kwargs.get("family", "AC") of the family builder
    stage,             \* how many steps of the built-in strand have completed
    gap_analysis_result, \* context["gap_analysis_result"]: the missing controls
    monitoring_results,  \* context["monitoring_results"]: control id -> status
    controls_checked,  \* "controls_checked" of the monitoring step's payload
    remediation_plan   \* context["remediation_plan"]: the entries of the list

vars == <<depends_on, retry_count, handles, step_status, attempts, step_error,
          step_result, step_completed_at, returned, strand_status, completed_at,
          errors, context, executable_steps, pc, exc, result, workflow_runs, now,
          strand_definitions, strands, active_strands, driven, finished,
          workflows, last_call, template, target_controls, family, stage,
          gap_analysis_result, monitoring_results, controls_checked,
          remediation_plan>>

orchestrator == <<strand_definitions, strands, active_strands, driven, finished,
                  workflows, last_call>>
\* What the actions of the built-in steps read and write.
builtin == <<template, target_controls, family, stage, gap_analysis_result,
             monitoring_results, controls_checked, remediation_plan>>
\* What no step of WorkflowStrand.execute() writes.
config == <<depends_on, retry_count, handles, orchestrator, builtin>>
stepvars == <<step_status, attempts, step_error, step_result, step_completed_at,
              returned>>

\* No exception / a None error_message.
NoExc == [kind |-> "none", steps |-> {}]
\* execute() has not returned.
NoResult == [status |-> "none"]
\* run_data.get("results", {}) of a record that carries no results.
EmptyResults == [status |-> "none"]
\* self.context = {} of WorkflowStrand.__init__.
EmptyContext == [set |-> FALSE, results |-> [s \in StepIds |-> "none"],
                 errors |-> <<>>, handles |-> FALSE]
StrandId == "strand"

\* A row another strand wrote during the current clock second.
PriorRun == [id |-> 0, workflow_id |-> "other", status |-> "running",
             results |-> EmptyResults, error_message |-> NoExc]

\* A map with no key.
EmptyMap == [x \in {} |-> 0]
\* No call made yet, or the latest one returned.
NoCall == [op |-> "none", kind |-> "none"]

\* A strand executed on its own: no orchestrator state.
NoOrchestrator ==
    /\ strand_definitions = EmptyMap
    /\ strands = <<>>
    /\ active_strands = EmptyMap
    /\ driven = 0
    /\ finished = FALSE
    /\ workflows = {}
    /\ last_call = NoCall

\* context.get(key) of a key no action has written, and a key holding v.
Unset == [set |-> FALSE]
Written(v) == [set |-> TRUE, value |-> v]

\* Steps with opaque actions: no built-in action runs.
NoBuiltin ==
    /\ template = "none"
    /\ target_controls = {}
    /\ family = <<>>
    /\ stage = 0
    /\ gap_analysis_result = Unset
    /\ monitoring_results = Unset
    /\ controls_checked = Unset
    /\ remediation_plan = Unset

Init ==
    /\ NoOrchestrator
    /\ NoBuiltin
    /\ depends_on \in Graphs
    /\ retry_count \in [StepIds -> 0..MaxRetry]
    /\ handles \in BOOLEAN
    /\ step_status = [s \in StepIds |-> "pending"]
    /\ attempts = [s \in StepIds |-> 0]
    /\ step_error = [s \in StepIds |-> "none"]
    /\ step_result = [s \in StepIds |-> "none"]
    /\ step_completed_at = [s \in StepIds |-> FALSE]
    /\ returned = [s \in StepIds |-> "none"]
    /\ strand_status = "pending"
    /\ completed_at = FALSE
    /\ errors = <<>>
    /\ context = EmptyContext
    /\ executable_steps = <<>>
    /\ pc = "created"
    /\ exc = NoExc
    /\ result = NoResult
    /\ workflow_runs \in {<<>>, <<PriorRun>>}
    /\ now = 0

\* ------------------------------------------------ Run Store (storage.py) --
\* run_id = f"run_{datetime.now().strftime('%Y%m%d_%H%M%S')}": the clock second.
run_id(t) == t

\* json.dumps raises TypeError on a value holding a monitor / data_loader object.
json_serializable(v) == IF v = EmptyResults THEN TRUE ELSE ~v.context.handles

\* INSERT INTO workflow_runs: id is the PRIMARY KEY.
primary_key_free(rows, id) == \A i \in 1..Len(rows) : rows[i].id # id

\* How record_workflow_run(run_data) ends when the clock reads second t.
record_outcome(rows, run_data, t) ==
    IF ~json_serializable(run_data.results) THEN "TypeError"
    ELSE IF ~primary_key_free(rows, run_id(t)) THEN "IntegrityError"
    ELSE "ok"

\* The table after record_workflow_run(run_data) at second t.
record_workflow_run(rows, run_data, t) ==
    IF record_outcome(rows, run_data, t) = "ok"
    THEN Append(rows, [id |-> run_id(t),
                       workflow_id |-> run_data.workflow_id,
                       status |-> run_data.status,
                       results |-> run_data.results,
                       error_message |-> run_data.error_message])
    ELSE rows

\* The seconds datetime.now() can read next: the current one or the following.
ClockReads == {now, now + 1}

\* ------------------------------------------------- WorkflowStrand helpers --
\* Variant: a skipped step counts as a met dependency.
completed_or_skipped_step_ids ==
    {s \in StepIds : step_status[s] \in {"completed", "skipped"}}

completed_step_ids == {s \in StepIds : step_status[s] = "completed"}

\* Variant: every pending step is executable, whatever it depends on.
get_executable_steps_ignoring_deps ==
    SelectSeq(StepOrder, LAMBDA s : step_status[s] = "pending")

\* Variant: one step per wave, the first executable one.
get_executable_steps_first_only ==
    LET ready == SelectSeq(StepOrder,
                           LAMBDA s : /\ step_status[s] = "pending"
                                      /\ \A dep \in depends_on[s] :
                                            dep \in completed_step_ids)
    IN IF ready = <<>> THEN <<>> ELSE <<ready[1]>>

\* Pending steps whose dependencies are all completed, in steps order.
get_executable_steps ==
    SelectSeq(StepOrder,
              LAMBDA s : /\ step_status[s] = "pending"
                         /\ \A dep \in depends_on[s] : dep \in completed_step_ids)

all_completed == \A s \in StepIds : step_status[s] \in {"completed", "skipped"}

\* Failed steps the stuck check counts as blocking.
is_failed_step(s) == step_status[s] = "failed" /\ retry_count[s] >= attempts[s]

failed_steps == {s \in StepIds : is_failed_step(s)}

\* _generate_final_results() with self.status = st, self.completed_at = cat.
generate_final_results(st, cat) ==
    [strand_id |-> StrandId,
     status |-> st,
     step_results |-> [s \in StepIds |->
                         [status |-> step_status[s], result |-> step_result[s],
                          error |-> step_error[s], attempts |-> attempts[s],
                          completed_at |-> step_completed_at[s]]],
     context |-> context,
     errors |-> errors,
     completed_at |-> cat]

InSeq(x, q) == \E i \in 1..Len(q) : q[i] = x

\* The run_data dictionaries execute() hands to the Run Store.
StartRecord == [workflow_id |-> StrandId, status |-> "running",
                results |-> EmptyResults, error_message |-> NoExc]
FinalRecord == [workflow_id |-> StrandId, status |-> "completed",
                results |-> generate_final_results("completed", TRUE),
                error_message |-> NoExc]
\* error_msg = f"Workflow failed: {str(e)}"
FailedRecord(e) == [workflow_id |-> StrandId, status |-> "failed",
                    results |-> EmptyResults, error_message |-> e]

\* ------------------------------------------------- WorkflowStrand.execute --
\* Lines 152-172: status, the "running" record (outside the try), the context.
\* The call happens in the second the clock shows.
Execute ==
    /\ pc = "created"
    /\ strand_status' = "running"
    /\ \E t \in {now} :
        /\ now' = t
        /\ workflow_runs' = record_workflow_run(workflow_runs, StartRecord, t)
        /\ IF record_outcome(workflow_runs, StartRecord, t) = "ok"
           THEN /\ context' = [set |-> TRUE,
                               results |-> [s \in StepIds |-> "none"],
                               errors |-> <<>>,
                               handles |-> handles]
                /\ pc' = "loop"
                /\ exc' = NoExc
           ELSE /\ context' = context
                /\ pc' = "raised"
                /\ exc' = [kind |-> record_outcome(workflow_runs, StartRecord, t),
                           steps |-> {}]
    /\ UNCHANGED <<config, stepvars, completed_at, errors, executable_steps, result>>

\* Variant: the executable set is recomputed while a gather is in progress.
StartWaveNoBarrier ==
    /\ pc \in {"loop", "gather"}
    /\ get_executable_steps # <<>>
    /\ pc = "gather" =>
          \E i \in 1..Len(get_executable_steps) :
             ~InSeq(get_executable_steps[i], executable_steps)
    /\ executable_steps' =
          IF pc = "loop" THEN get_executable_steps
          ELSE SelectSeq(StepOrder,
                         LAMBDA s : \/ InSeq(s, executable_steps)
                                    \/ InSeq(s, get_executable_steps))
    /\ pc' = "gather"
    /\ UNCHANGED <<config, stepvars, strand_status, completed_at, errors, context,
                   exc, result, workflow_runs, now>>

\* Lines 176, 203-205: a non-empty executable set is handed to asyncio.gather.
StartWave ==
    /\ pc = "loop"
    /\ get_executable_steps # <<>>
    /\ executable_steps' = get_executable_steps
    /\ pc' = "gather"
    /\ UNCHANGED <<config, stepvars, strand_status, completed_at, errors, context,
                   exc, result, workflow_runs, now>>

\* Lines 178-185, 222-236: nothing executable and every step completed or
\* skipped: leave the loop, write the "completed" record, return the results.
Complete ==
    /\ pc = "loop"
    /\ get_executable_steps = <<>>
    /\ all_completed
    /\ strand_status' = "completed"
    /\ completed_at' = TRUE
    /\ \E t \in ClockReads :
        /\ now' = t
        /\ workflow_runs' = record_workflow_run(workflow_runs, FinalRecord, t)
        /\ IF record_outcome(workflow_runs, FinalRecord, t) = "ok"
           THEN /\ pc' = "returned"
                /\ result' = generate_final_results("completed", TRUE)
                /\ exc' = NoExc
           ELSE /\ pc' = "except"
                /\ result' = result
                /\ exc' = [kind |-> record_outcome(workflow_runs, FinalRecord, t),
                           steps |-> {}]
    /\ UNCHANGED <<config, stepvars, errors, context, executable_steps>>

\* Variant: fail fast, the failure check runs although steps are executable.
RaiseStuckFailFast ==
    /\ pc = "loop"
    /\ ~all_completed
    /\ failed_steps # {}
    /\ exc' = [kind |-> "Unresolved failures", steps |-> failed_steps]
    /\ pc' = "except"
    /\ UNCHANGED <<config, stepvars, strand_status, completed_at, errors, context,
                   executable_steps, result, workflow_runs, now>>

\* Lines 187-197: nothing executable, not all completed, some failed step
\* passes the retry test: raise inside the try.
RaiseStuck ==
    /\ pc = "loop"
    /\ get_executable_steps = <<>>
    /\ ~all_completed
    /\ failed_steps # {}
    /\ exc' = [kind |-> "Unresolved failures", steps |-> failed_steps]
    /\ pc' = "except"
    /\ UNCHANGED <<config, stepvars, strand_status, completed_at, errors, context,
                   executable_steps, result, workflow_runs, now>>

\* Lines 199-201: otherwise await asyncio.sleep(1) ...
Sleep ==
    /\ pc = "loop"
    /\ get_executable_steps = <<>>
    /\ ~all_completed
    /\ failed_steps = {}
    /\ pc' = "sleep"
    /\ UNCHANGED <<config, stepvars, strand_status, completed_at, errors, context,
                   executable_steps, exc, result, workflow_runs, now>>

\* ... and continue with the next iteration.  The elapsed second is read by
\* the next datetime.now().
WakeUp ==
    /\ pc = "sleep"
    /\ pc' = "loop"
    /\ UNCHANGED <<config, stepvars, strand_status, completed_at, errors, context,
                   executable_steps, exc, result, workflow_runs, now>>

\* Lines 238-252: the except clause: status, completion time, the "failed"
\* record, re-raise.  A failing INSERT replaces the exception in flight.
Handler ==
    /\ pc = "except"
    /\ strand_status' = "failed"
    /\ completed_at' = TRUE
    /\ \E t \in ClockReads :
        /\ now' = t
        /\ workflow_runs' = record_workflow_run(workflow_runs, FailedRecord(exc), t)
        /\ exc' = IF record_outcome(workflow_runs, FailedRecord(exc), t) = "ok"
                  THEN exc
                  ELSE [kind |-> record_outcome(workflow_runs, FailedRecord(exc), t),
                        steps |-> {}]
    /\ pc' = "raised"
    /\ UNCHANGED <<config, stepvars, errors, context, executable_steps, result>>

\* --------------------------------------------------- WorkflowStep.execute --
\* Variant: a task of the gather is started again after it completed.
NextToStartAgain(s) ==
    /\ pc = "gather"
    /\ InSeq(s, executable_steps)
    /\ step_status[s] \in {"pending", "completed"}

\* gather starts its tasks in list order: a task runs once every step before
\* it in executable_steps has left Pending.
NextToStart(s) ==
    /\ pc = "gather"
    /\ InSeq(s, executable_steps)
    /\ step_status[s] = "pending"
    /\ \A i \in 1..Len(executable_steps) :
          i < Index(s) /\ InSeq(StepOrder[i], executable_steps)
             => step_status[StepOrder[i]] # "pending"

\* Variant: a skipped step counts as an attempt.
StepSkipCounted(s) ==
    /\ NextToStart(s)
    /\ step_status' = [step_status EXCEPT ![s] = "skipped"]
    /\ attempts' = [attempts EXCEPT ![s] = @ + 1]
    /\ returned' = [returned EXCEPT ![s] = "skipped"]
    /\ UNCHANGED <<config, step_error, step_result, step_completed_at,
                   strand_status, completed_at, errors, context, executable_steps,
                   pc, exc, result, workflow_runs, now>>

\* Lines 70-73: the condition is present and evaluates false.
StepSkip(s) ==
    /\ NextToStart(s)
    /\ step_status' = [step_status EXCEPT ![s] = "skipped"]
    /\ returned' = [returned EXCEPT ![s] = "skipped"]
    /\ UNCHANGED <<config, attempts, step_error, step_result, step_completed_at,
                   strand_status, completed_at, errors, context, executable_steps,
                   pc, exc, result, workflow_runs, now>>

\* Lines 70, 97-101: the condition itself raises, inside the try.
StepConditionRaises(s) ==
    /\ NextToStart(s)
    /\ step_status' = [step_status EXCEPT ![s] = "failed"]
    /\ step_error' = [step_error EXCEPT ![s] = "exception"]
    /\ returned' = [returned EXCEPT ![s] = "error"]
    /\ UNCHANGED <<config, attempts, step_result, step_completed_at,
                   strand_status, completed_at, errors, context, executable_steps,
                   pc, exc, result, workflow_runs, now>>

\* Lines 75-82: no condition or a true one: Running, one more attempt, the
\* action is awaited.
StepRun(s) ==
    /\ NextToStart(s)
    /\ step_status' = [step_status EXCEPT ![s] = "running"]
    /\ attempts' = [attempts EXCEPT ![s] = @ + 1]
    /\ UNCHANGED <<config, step_error, step_result, step_completed_at, returned,
                   strand_status, completed_at, errors, context, executable_steps,
                   pc, exc, result, workflow_runs, now>>

\* Lines 84-89: the action returned within the timeout.
StepComplete(s) ==
    /\ pc = "gather"
    /\ step_status[s] = "running"
    /\ step_status' = [step_status EXCEPT ![s] = "completed"]
    /\ step_result' = [step_result EXCEPT ![s] = "result"]
    /\ step_completed_at' = [step_completed_at EXCEPT ![s] = TRUE]
    /\ returned' = [returned EXCEPT ![s] = "result"]
    /\ UNCHANGED <<config, attempts, step_error,
                   strand_status, completed_at, errors, context, executable_steps,
                   pc, exc, result, workflow_runs, now>>

\* Lines 91-95: asyncio.wait_for timed out.
StepTimeout(s) ==
    /\ pc = "gather"
    /\ step_status[s] = "running"
    /\ step_status' = [step_status EXCEPT ![s] = "failed"]
    /\ step_error' = [step_error EXCEPT ![s] = "timed out"]
    /\ returned' = [returned EXCEPT ![s] = "error"]
    /\ UNCHANGED <<config, attempts, step_result, step_completed_at,
                   strand_status, completed_at, errors, context, executable_steps,
                   pc, exc, result, workflow_runs, now>>

\* Variant: the exception of the action leaves execute() uncaught.
StepRaiseUncaught(s) ==
    /\ pc = "gather"
    /\ step_status[s] = "running"
    /\ step_status' = [step_status EXCEPT ![s] = "pending"]
    /\ returned' = [returned EXCEPT ![s] = "Exception"]
    /\ UNCHANGED <<config, attempts, step_error, step_result, step_completed_at,
                   strand_status, completed_at, errors, context, executable_steps,
                   pc, exc, result, workflow_runs, now>>

\* Lines 97-101: the action raised.
StepRaise(s) ==
    /\ pc = "gather"
    /\ step_status[s] = "running"
    /\ step_status' = [step_status EXCEPT ![s] = "failed"]
    /\ step_error' = [step_error EXCEPT ![s] = "exception"]
    /\ returned' = [returned EXCEPT ![s] = "error"]
    /\ UNCHANGED <<config, attempts, step_result, step_completed_at,
                   strand_status, completed_at, errors, context, executable_steps,
                   pc, exc, result, workflow_runs, now>>

\* isinstance(result, Exception): step.execute() catches every Exception and
\* returns a payload, so gather never hands one back.
is_exception(r) == r = "Exception"

\* Lines 205-220: gather is done when every task returned; the payloads go
\* to context["results"], then the loop starts over.
ProcessResults ==
    /\ pc = "gather"
    /\ \A i \in 1..Len(executable_steps) : returned[executable_steps[i]] # "none"
    /\ step_status' = [s \in StepIds |->
                         IF InSeq(s, executable_steps) /\ is_exception(returned[s])
                         THEN "failed" ELSE step_status[s]]
    /\ step_error' = [s \in StepIds |->
                        IF InSeq(s, executable_steps) /\ is_exception(returned[s])
                        THEN "exception" ELSE step_error[s]]
    /\ errors' = errors \o SelectSeq(executable_steps,
                                     LAMBDA s : is_exception(returned[s]))
    /\ context' = [context EXCEPT !.results =
                     [s \in StepIds |->
                        IF ~InSeq(s, executable_steps) THEN @[s]
                        ELSE IF is_exception(returned[s]) THEN "error"
                        ELSE returned[s]]]
    /\ returned' = [s \in StepIds |-> "none"]
    /\ pc' = "loop"
    /\ UNCHANGED <<config, attempts, step_result, step_completed_at,
                   strand_status, completed_at, executable_steps,
                   exc, result, workflow_runs, now>>

Next ==
    \/ Execute
    \/ StartWave
    \/ Complete
    \/ RaiseStuck
    \/ Sleep
    \/ WakeUp
    \/ Handler
    \/ \E s \in StepIds : StepSkip(s)
    \/ \E s \in StepIds : StepConditionRaises(s)
    \/ \E s \in StepIds : StepRun(s)
    \/ \E s \in StepIds : StepComplete(s)
    \/ \E s \in StepIds : StepTimeout(s)
    \/ \E s \in StepIds : StepRaise(s)
    \/ ProcessResults

Spec == Init /\ [][Next]_vars

\* ------------------------------------------- execute() on a strand again --
\* Lines 152-172 entered on a strand whose earlier execute() has returned or
\* raised: the same statements run, whatever the status is.
ExecuteAgain ==
    /\ pc \in {"returned", "raised"}
    /\ now < MaxClock
    /\ strand_status' = "running"
    /\ \E t \in ClockReads :
        /\ now' = t
        /\ workflow_runs' = record_workflow_run(workflow_runs, StartRecord, t)
        /\ IF record_outcome(workflow_runs, StartRecord, t) = "ok"
           THEN /\ context' = [set |-> TRUE,
                               results |-> [s \in StepIds |-> "none"],
                               errors |-> <<>>,
                               handles |-> handles]
                /\ pc' = "loop"
                /\ exc' = NoExc
           ELSE /\ context' = context
                /\ pc' = "raised"
                /\ exc' = [kind |-> record_outcome(workflow_runs, StartRecord, t),
                           steps |-> {}]
    /\ UNCHANGED <<config, stepvars, completed_at, errors, executable_steps, result>>

RNext == Next \/ ExecuteAgain

RSpec == Init /\ [][RNext]_vars

\* ------------------------------------------- actions that suspend (gather) --
\* Steps A and B without dependencies, C depending on both.
Diamond == [s \in StepIds |-> IF s = "C" THEN {"A", "B"} ELSE {}]

WInit ==
    /\ NoOrchestrator
    /\ NoBuiltin
    /\ depends_on = Diamond
    /\ retry_count \in [StepIds -> 0..MaxRetry]
    /\ handles \in BOOLEAN
    /\ step_status = [s \in StepIds |-> "pending"]
    /\ attempts = [s \in StepIds |-> 0]
    /\ step_error = [s \in StepIds |-> "none"]
    /\ step_result = [s \in StepIds |-> "none"]
    /\ step_completed_at = [s \in StepIds |-> FALSE]
    /\ returned = [s \in StepIds |-> "none"]
    /\ strand_status = "pending"
    /\ completed_at = FALSE
    /\ errors = <<>>
    /\ context = EmptyContext
    /\ executable_steps = <<>>
    /\ pc = "created"
    /\ exc = NoExc
    /\ result = NoResult
    /\ workflow_runs \in {<<>>, <<PriorRun>>}
    /\ now = 0

\* asyncio.gather schedules one task per step, in list order, and the event
\* loop runs ready tasks first in, first out: a task whose action has
\* suspended is resumed only after every task of the gather had its first run.
AllStarted ==
    \A i \in 1..Len(executable_steps) :
        step_status[executable_steps[i]] # "pending"

WNext ==
    \/ Execute
    \/ StartWave
    \/ Complete
    \/ RaiseStuck
    \/ Sleep
    \/ WakeUp
    \/ Handler
    \/ \E s \in StepIds : StepSkip(s)
    \/ \E s \in StepIds : StepConditionRaises(s)
    \/ \E s \in StepIds : StepRun(s)
    \/ \E s \in StepIds : AllStarted /\ StepComplete(s)
    \/ \E s \in StepIds : AllStarted /\ StepTimeout(s)
    \/ \E s \in StepIds : AllStarted /\ StepRaise(s)
    \/ ProcessResults

WSpec == WInit /\ [][WNext]_vars

\* ------------------------------------------ actions of the built-in steps --
\* Control ids and family names are strings, kept as sequences of characters.
Controls == {<<"A", "C", "-", "1">>, <<"A", "C", "-", "2">>,
             <<"S", "I", "-", "1">>}
Families == {<<"A", "C">>, <<"S", "I">>}
\* kwargs.get("family", "AC")
DefaultFamily == <<"A", "C">>

\* str.startswith
StartsWith(str, prefix) ==
    /\ Len(prefix) <= Len(str)
    /\ SubSeq(str, 1, Len(prefix)) = prefix

\* [ctrl for ctrl in target_controls if ctrl.startswith(f"{family}-")]
family_controls ==
    {ctrl \in target_controls : StartsWith(ctrl, family \o <<"-">>)}

\* One built-in strand whose steps each complete, in dependency order, on an
\* orchestrator that holds a data_loader.  Lists are kept as the sets of their
\* entries.
PInit ==
    /\ NoOrchestrator
    /\ template \in {"compliance_assessment", "family_assessment"}
    /\ target_controls \in SUBSET Controls
    /\ family \in IF template = "family_assessment" THEN Families
                  ELSE {DefaultFamily}
    /\ stage = 0
    /\ gap_analysis_result = Unset
    /\ monitoring_results = Unset
    /\ controls_checked = Unset
    /\ remediation_plan = Unset
    /\ depends_on = [s \in StepIds |-> {}]
    /\ retry_count = [s \in StepIds |-> 0]
    /\ handles = TRUE
    /\ step_status = [s \in StepIds |-> "pending"]
    /\ attempts = [s \in StepIds |-> 0]
    /\ step_error = [s \in StepIds |-> "none"]
    /\ step_result = [s \in StepIds |-> "none"]
    /\ step_completed_at = [s \in StepIds |-> FALSE]
    /\ returned = [s \in StepIds |-> "none"]
    /\ strand_status = "pending"
    /\ completed_at = FALSE
    /\ errors = <<>>
    /\ context = EmptyContext
    /\ executable_steps = <<>>
    /\ pc = "idle"
    /\ exc = NoExc
    /\ result = NoResult
    /\ workflow_runs = <<>>
    /\ now = 0

\* What an action of the built-in steps leaves alone.
engine == <<depends_on, retry_count, handles, orchestrator, stepvars,
            strand_status, completed_at, errors, context, executable_steps, pc,
            exc, result, workflow_runs, now, template, target_controls, family>>

\* Lines 441-456, first step of both builders.  context["evidence_results"]
\* is read by no other action and is not kept.
evidence_collection_step ==
    /\ template # "none"
    /\ stage = 0
    /\ stage' = 1
    /\ UNCHANGED <<engine, gap_analysis_result, monitoring_results,
                   controls_checked, remediation_plan>>

\* Lines 385-408.  hash() of a str differs from process to process: the
\* implemented controls are any part of the target controls.  The baseline
\* is whatever the data holds.
gap_analysis_step ==
    /\ \/ template = "compliance_assessment" /\ stage = 1
       \/ template = "family_assessment" /\ stage = 2
    /\ \E implemented_controls \in SUBSET target_controls,
          baseline_controls \in SUBSET Controls :
          gap_analysis_result' =
              Written([missing_controls |->
                          baseline_controls \ implemented_controls])
    /\ stage' = stage + 1
    /\ UNCHANGED <<engine, monitoring_results, controls_checked,
                   remediation_plan>>

\* controls = controls_to_check or context.get("target_controls", [])
controls_of(controls_to_check) ==
    IF controls_to_check # {} THEN controls_to_check ELSE target_controls

\* Lines 411-438 with the controls_to_check parameter of the builder; each
\* check passes or fails.
monitoring_check_step ==
    /\ \/ template = "compliance_assessment" /\ stage = 2
       \/ template = "family_assessment" /\ stage = 1
    /\ LET controls_to_check ==
              IF template = "compliance_assessment" THEN target_controls
              ELSE family_controls
           controls == controls_of(controls_to_check)
       IN /\ \E check_results \in [controls -> {"pass", "fail"}] :
                monitoring_results' = Written(check_results)
          /\ controls_checked' = Written(controls)
    /\ stage' = stage + 1
    /\ UNCHANGED <<engine, gap_analysis_result, remediation_plan>>

\* Lines 459-496.
remediation_planning_step ==
    /\ template = "compliance_assessment"
    /\ stage = 3
    /\ LET missing_controls ==
              IF gap_analysis_result.set
              THEN gap_analysis_result.value.missing_controls ELSE {}
           failed_checks ==
              IF monitoring_results.set
              THEN {c \in DOMAIN monitoring_results.value :
                       monitoring_results.value[c] = "fail"}
              ELSE {}
       IN remediation_plan' =
             Written({[control_id |-> c, action_type |-> "implement"] :
                         c \in missing_controls}
                     \cup {[control_id |-> c, action_type |-> "remediate"] :
                              c \in failed_checks})
    /\ stage' = 4
    /\ UNCHANGED <<engine, gap_analysis_result, monitoring_results,
                   controls_checked>>

PNext ==
    \/ evidence_collection_step
    \/ gap_analysis_step
    \/ monitoring_check_step
    \/ remediation_planning_step

PSpec == PInit /\ [][PNext]_vars

\* ===================================================== StrandsOrchestrator ==
\* The strand types callers register and ask for.
TemplateNames == {"family_assessment", "custom"}

\* A step builder that returns no step.
EmptyBuilder == "empty_builder"
FamilyBuilder == "create_family_assessment_strand"

\* The (name, description, step_builder) triples callers register.
Registrations ==
    {[name |-> "Family Assessment", description |-> "family",
      step_builder |-> FamilyBuilder],
     [name |-> "Custom", description |-> "custom",
      step_builder |-> EmptyBuilder]}

\* definition["step_builder"](target_controls, **kwargs): the ids of the steps
\* built.  A, B, C stand for family_evidence_collection, family_monitoring and
\* family_gap_analysis.
build_steps(step_builder) ==
    IF step_builder = FamilyBuilder THEN StepOrder ELSE <<>>

\* depends_on and retry_count of the three steps create_family_assessment_strand
\* builds.
FamilyDependsOn == [s \in StepIds |->
                      IF s = "A" THEN {} ELSE IF s = "B" THEN {"A"} ELSE {"B"}]
FamilyRetryCount == [s \in StepIds |-> 0]

\* strand_id = f"strand_{strand_type}_{datetime.now().strftime('%Y%m%d_%H%M%S')}"
strand_id(strand_type, t) == <<strand_type, t>>

\* d[k] = v and del d[k] of a dict.
MapSet(d, k, v) == [x \in DOMAIN d \cup {k} |-> IF x = k THEN v ELSE d[x]]
MapDel(d, k) == [x \in DOMAIN d \ {k} |-> d[x]]

\* A row of table workflows written by create_workflow: its id is wf_<second>,
\* never a strand id.
PriorWorkflow == "wf_0"

OInit ==
    /\ depends_on = FamilyDependsOn
    /\ retry_count = FamilyRetryCount
    /\ handles \in BOOLEAN
    /\ step_status = [s \in StepIds |-> "pending"]
    /\ attempts = [s \in StepIds |-> 0]
    /\ step_error = [s \in StepIds |-> "none"]
    /\ step_result = [s \in StepIds |-> "none"]
    /\ step_completed_at = [s \in StepIds |-> FALSE]
    /\ returned = [s \in StepIds |-> "none"]
    /\ strand_status = "pending"
    /\ completed_at = FALSE
    /\ errors = <<>>
    /\ context = EmptyContext
    /\ executable_steps = <<>>
    /\ pc = "idle"
    /\ exc = NoExc
    /\ result = NoResult
    /\ workflow_runs \in {<<>>, <<PriorRun>>}
    /\ now = 0
    /\ strand_definitions = EmptyMap
    /\ strands = <<>>
    /\ active_strands = EmptyMap
    /\ driven = 0
    /\ finished = FALSE
    /\ workflows = {PriorWorkflow}
    /\ last_call = NoCall
    /\ NoBuiltin

\* The event loop runs other callers only while no execute() is inside a
\* synchronous stretch: before the call, at its awaits, after it ended.
AtSuspension == pc \in {"idle", "gather", "sleep"} \/ finished

\* WorkflowStrand.status and the number of Completed steps of object k.
status_of(k) == IF k = driven THEN strand_status ELSE "pending"
completed_of(k) == IF k = driven THEN Cardinality(completed_step_ids) ELSE 0

\* Variant: a strand type keeps its first registration.
register_first_wins(strand_type, reg) ==
    /\ AtSuspension
    /\ strand_definitions' =
         IF strand_type \in DOMAIN strand_definitions THEN strand_definitions
         ELSE MapSet(strand_definitions, strand_type, reg)
    /\ last_call' = NoCall
    /\ UNCHANGED <<depends_on, retry_count, handles, stepvars, strand_status,
                   completed_at, errors, context, executable_steps, pc, exc,
                   result, workflow_runs, now, strands, active_strands, driven,
                   finished, workflows, builtin>>

\* Lines 300-314.
register_strand_definition(strand_type, reg) ==
    /\ AtSuspension
    /\ strand_definitions' = MapSet(strand_definitions, strand_type, reg)
    /\ last_call' = NoCall
    /\ UNCHANGED <<depends_on, retry_count, handles, stepvars, strand_status,
                   completed_at, errors, context, executable_steps, pc, exc,
                   result, workflow_runs, now, strands, active_strands, driven,
                   finished, workflows, builtin>>

\* Variant: the strand type is looked up after the strand is built and stored.
create_strand_late_lookup(strand_type) ==
    /\ AtSuspension
    /\ IF strand_type \notin DOMAIN strand_definitions
       THEN /\ Len(strands) < MaxStrands
            /\ \E t \in ClockReads :
                 LET id == strand_id(strand_type, t)
                     strand == [strand_id |-> id, name |-> "none",
                                description |-> "none", steps |-> <<>>]
                 IN /\ now' = t
                    /\ strands' = Append(strands, strand)
                    /\ active_strands' = MapSet(active_strands, id, Len(strands) + 1)
                    /\ last_call' = [op |-> "create_strand", kind |-> "ValueError"]
       ELSE /\ Len(strands) < MaxStrands
            /\ \E t \in ClockReads :
                 LET definition == strand_definitions[strand_type]
                     id == strand_id(strand_type, t)
                     strand == [strand_id |-> id,
                                name |-> definition.name,
                                description |-> definition.description,
                                steps |-> build_steps(definition.step_builder)]
                 IN /\ now' = t
                    /\ strands' = Append(strands, strand)
                    /\ active_strands' = MapSet(active_strands, id, Len(strands) + 1)
                    /\ last_call' = NoCall
    /\ UNCHANGED <<depends_on, retry_count, handles, stepvars, strand_status,
                   completed_at, errors, context, executable_steps, pc, exc,
                   result, workflow_runs, strand_definitions, driven, finished,
                   workflows, builtin>>

\* Lines 316-341.
create_strand(strand_type) ==
    /\ AtSuspension
    /\ IF strand_type \notin DOMAIN strand_definitions
       THEN /\ last_call' = [op |-> "create_strand", kind |-> "ValueError"]
            /\ UNCHANGED <<strands, active_strands, now>>
       ELSE /\ Len(strands) < MaxStrands
            /\ \E t \in ClockReads :
                 LET definition == strand_definitions[strand_type]
                     id == strand_id(strand_type, t)
                     strand == [strand_id |-> id,
                                name |-> definition.name,
                                description |-> definition.description,
                                steps |-> build_steps(definition.step_builder)]
                 IN /\ now' = t
                    /\ strands' = Append(strands, strand)
                    /\ active_strands' = MapSet(active_strands, id, Len(strands) + 1)
                    /\ last_call' = NoCall
    /\ UNCHANGED <<depends_on, retry_count, handles, stepvars, strand_status,
                   completed_at, errors, context, executable_steps, pc, exc,
                   result, workflow_runs, strand_definitions, driven, finished,
                   workflows, builtin>>

\* Line 346: strand.execute() is entered for a strand of three steps.
execute_strand_async(k) ==
    /\ pc = "idle"
    /\ driven = 0
    /\ k \in 1..Len(strands)
    /\ strands[k].steps = StepOrder
    /\ driven' = k
    /\ pc' = "created"
    /\ UNCHANGED <<depends_on, retry_count, handles, stepvars, strand_status,
                   completed_at, errors, context, executable_steps, exc,
                   result, workflow_runs, now, strand_definitions, strands,
                   active_strands, finished, workflows, last_call, builtin>>

\* Variant: the clean-up sits after the await instead of in a finally clause.
cleanup_on_return_only ==
    IF pc = "returned" /\ strands[driven].strand_id \in DOMAIN active_strands
    THEN MapDel(active_strands, strands[driven].strand_id)
    ELSE active_strands

\* Variant: only Completed strands are removed.
cleanup_completed_only ==
    IF /\ strand_status = "completed"
       /\ strands[driven].strand_id \in DOMAIN active_strands
    THEN MapDel(active_strands, strands[driven].strand_id)
    ELSE active_strands

\* Lines 349-351: active_strands after the clean-up.
cleanup ==
    IF /\ strand_status \in {"completed", "failed"}
       /\ strands[driven].strand_id \in DOMAIN active_strands
    THEN MapDel(active_strands, strands[driven].strand_id)
    ELSE active_strands

\* Lines 347-351: the finally clause, run when execute() returned or raised.
execute_strand_async_finally ==
    /\ driven # 0
    /\ pc \in {"returned", "raised"}
    /\ ~finished
    /\ finished' = TRUE
    /\ active_strands' = cleanup
    /\ UNCHANGED <<depends_on, retry_count, handles, stepvars, strand_status,
                   completed_at, errors, context, executable_steps, pc, exc,
                   result, workflow_runs, now, strand_definitions, strands,
                   driven, workflows, last_call, builtin>>

\* Lines 353-372: the value get_strand_status(id) returns, or the exception
\* it raises.  progress is completed / total.
strand_status_snapshot(id) ==
    IF id \notin DOMAIN active_strands THEN [kind |-> "None"]
    ELSE LET k == active_strands[id]
         IN IF Len(strands[k].steps) = 0 THEN [kind |-> "ZeroDivisionError"]
            ELSE [kind |-> "status",
                  strand_id |-> id,
                  name |-> strands[k].name,
                  status |-> status_of(k),
                  completed |-> completed_of(k),
                  total |-> Len(strands[k].steps)]

\* The ids callers hold: those create_strand returned.
IssuedIds == {strands[k].strand_id : k \in 1..Len(strands)}

get_strand_status(id) ==
    /\ AtSuspension
    /\ last_call' = IF strand_status_snapshot(id).kind = "ZeroDivisionError"
                     THEN [op |-> "get_strand_status",
                           kind |-> "ZeroDivisionError"]
                     ELSE NoCall
    /\ UNCHANGED <<depends_on, retry_count, handles, stepvars, strand_status,
                   completed_at, errors, context, executable_steps, pc, exc,
                   result, workflow_runs, now, strand_definitions, strands,
                   active_strands, driven, finished, workflows, builtin>>

\* Lines 374-379: one snapshot per key; an exception of one ends the call.
get_active_strands ==
    /\ AtSuspension
    /\ last_call' =
         IF \E id \in DOMAIN active_strands :
               strand_status_snapshot(id).kind = "ZeroDivisionError"
         THEN [op |-> "get_active_strands", kind |-> "ZeroDivisionError"]
         ELSE NoCall
    /\ UNCHANGED <<depends_on, retry_count, handles, stepvars, strand_status,
                   completed_at, errors, context, executable_steps, pc, exc,
                   result, workflow_runs, now, strand_definitions, strands,
                   active_strands, driven, finished, workflows, builtin>>

\* ----------------------------------------- HistoricalStorage.get_workflow_runs
\* limit: int = 10
RunsLimit == 10

Reverse(q) == [i \in 1..Len(q) |-> q[Len(q) + 1 - i]]

\* SELECT ... FROM workflow_runs wr JOIN workflows w ON wr.workflow_id = w.id
\* WHERE wr.workflow_id = ? ORDER BY wr.started_at DESC LIMIT ?
get_workflow_runs(workflow_id, limit) ==
    LET joined == SelectSeq(workflow_runs,
                            LAMBDA row : /\ row.workflow_id = workflow_id
                                         /\ row.workflow_id \in workflows)
        ordered == Reverse(joined)
    IN SubSeq(ordered, 1, IF Len(ordered) < limit THEN Len(ordered) ELSE limit)

ONext ==
    \/ Next
    \/ \E ty \in TemplateNames, reg \in Registrations :
          register_strand_definition(ty, reg)
    \/ \E ty \in TemplateNames : create_strand(ty)
    \/ \E k \in 1..MaxStrands : execute_strand_async(k)
    \/ execute_strand_async_finally
    \/ \E id \in IssuedIds : get_strand_status(id)
    \/ get_active_strands

OSpec == OInit /\ [][ONext]_vars

\* ================================================================ claims ==
Terminated == pc \in {"returned", "raised"}
Failed(s) == step_status[s] = "failed"
Skipped(s) == step_status[s] = "skipped"
Completed(s) == step_status[s] = "completed"
StuckRaised == exc.kind = "Unresolved failures" /\ pc \in {"except", "raised"}

\* Ids reachable from s along depends_on edges, in one or more steps.
RECURSIVE ReachWithin(_, _)
ReachWithin(S, n) ==
    IF n = 0 THEN S
    ELSE ReachWithin(S \cup UNION {depends_on[d] : d \in S \cap StepIds}, n - 1)
Reach(s) == ReachWithin(depends_on[s], Cardinality(StepIds))

\* A cycle, a self-dependency or a dangling dependency id.
StructurallyStuck ==
    \E s \in StepIds : s \in Reach(s) \/ Dangling \in Reach(s)

\* C1: a step is Running, or has ever been started, only if every declared
\* dependency names a step that is Completed.
C1_NoFalseStart ==
    \A s \in StepIds :
        (step_status[s] = "running" \/ attempts[s] > 0)
            => \A d \in depends_on[s] : d \in StepIds /\ Completed(d)

\* A step with a declared dependency is Running.
C1_Witness ==
    \E s \in StepIds : step_status[s] = "running" /\ depends_on[s] # {}

\* C2: with a structurally stuck dependency graph (cycle, self-dependency,
\* dangling id) and no step Failed or Skipped, execute() never sits in the
\* "nothing executable" sleep: it raises instead.
C2_StuckGraphRaises ==
    (StructurallyStuck /\ \A s \in StepIds : ~Failed(s) /\ ~Skipped(s))
        => pc # "sleep"

\* C3: when nothing is executable, not every step is Completed or Skipped and
\* some step is Failed with attempts >= retry budget + 1, execute() raises,
\* and the failure it raises names every such step.
C3_Exhausted(s) == Failed(s) /\ attempts[s] >= retry_count[s] + 1
C3_ExhaustedFailureRaises ==
    /\ (pc = "sleep" => \A s \in StepIds : ~C3_Exhausted(s))
    /\ (StuckRaised => \A s \in StepIds : C3_Exhausted(s) => s \in exc.steps)

\* C4: a step whose action raised and which the stuck-workflow failure names
\* was invoked retry budget + 1 times.
C4_RetryBudgetAttempts ==
    StuckRaised =>
        \A s \in exc.steps :
            step_error[s] = "exception" /\ attempts[s] >= 1
                => attempts[s] = retry_count[s] + 1

\* C5: with a step A Skipped and a step B whose only dependency is A, in an
\* otherwise sound graph with no Failed step, execute() never sits in the
\* "nothing executable" sleep: it raises the stuck-workflow failure.
C5_SkipSurfacesAsFailure ==
    (/\ ~StructurallyStuck
     /\ \A s \in StepIds : ~Failed(s)
     /\ \E a, b \in StepIds : Skipped(a) /\ depends_on[b] = {a})
        => pc # "sleep"

\* C6: a step with a Skipped step among its dependencies is Pending, was never
\* started and is in no executable set.
HasSkippedDep(s) == \E d \in depends_on[s] : d \in StepIds /\ Skipped(d)
C6_SkippedNeverSatisfies ==
    \A s \in StepIds :
        HasSkippedDep(s) =>
            /\ step_status[s] = "pending"
            /\ attempts[s] = 0
            /\ ~InSeq(s, get_executable_steps)
            /\ (pc = "gather" => ~InSeq(s, executable_steps))

\* The loop found nothing executable while a step waits on a Skipped one.
C6_Witness ==
    /\ pc = "sleep"
    /\ \E s \in StepIds : HasSkippedDep(s)

\* C7: once a step has Failed, execute() leaves the loop (raise or return)
\* only when no Pending step has all its dependencies Completed: every step
\* of an independent branch has been executed by then.
C7_IndependentBranchesRun ==
    (pc \in {"except", "raised", "returned"} /\ \E a \in StepIds : Failed(a))
        => \A s \in StepIds :
              (\A d \in depends_on[s] : d \in StepIds /\ Completed(d))
                  => step_status[s] # "pending"

\* A failed first-wave step, and a second-wave step of another branch that
\* completed before the stuck-workflow failure was raised.
C7_Witness ==
    /\ pc = "raised"
    /\ exc.kind = "Unresolved failures"
    /\ \E a, b, c \in StepIds :
          /\ Failed(a) /\ depends_on[a] = {}
          /\ depends_on[c] = {b} /\ b # a /\ c # a
          /\ Completed(b) /\ Completed(c)

\* C8: when a step ended Failed and every other step is Completed or Skipped,
\* the caller is not left waiting: execute() has returned the result with
\* status "completed" and the step reported as failed, or is raising a
\* failure that names the failed steps.
PartialFailure ==
    /\ \E s \in StepIds : Failed(s)
    /\ \A s \in StepIds : step_status[s] \in {"failed", "completed", "skipped"}
C8_PartialFailureReturned ==
    (PartialFailure /\ pc \in {"sleep", "except", "returned"})
        => \/ /\ pc = "returned"
              /\ result.status = "completed"
              /\ \A s \in StepIds :
                    Failed(s) => result.step_results[s].status = "failed"
           \/ /\ StuckRaised
              /\ exc.steps = {s \in StepIds : Failed(s)}

\* C9: once the loop has ended with every step Completed or Skipped, the
\* strand is Completed with a completion time, a "completed" row carrying the
\* results is in the Run Store and the results were returned.
C9_NormalCompletion ==
    (all_completed /\ pc \in {"except", "raised", "returned"})
        => /\ pc = "returned"
           /\ strand_status = "completed"
           /\ completed_at
           /\ result.status = "completed"
           /\ \E i \in 1..Len(workflow_runs) :
                 /\ workflow_runs[i].workflow_id = StrandId
                 /\ workflow_runs[i].status = "completed"
                 /\ workflow_runs[i].results = result

\* C10: when execute() has raised, the strand is Failed with a completion
\* time and the Run Store holds a "failed" row of the strand whose error
\* message carries the raised error.
C10_FailureRecorded ==
    pc = "raised"
        => /\ strand_status = "failed"
           /\ completed_at
           /\ \E i \in 1..Len(workflow_runs) :
                 /\ workflow_runs[i].workflow_id = StrandId
                 /\ workflow_runs[i].status = "failed"
                 /\ workflow_runs[i].error_message = exc


\* C11: a terminated execution has written exactly two rows for its strand
\* id: a "running" row first, then one terminal row whose status is the
\* strand's final status.
OwnRuns == SelectSeq(workflow_runs, LAMBDA row : row.workflow_id = StrandId)
C11_TwoRecords ==
    Terminated =>
        /\ Len(OwnRuns) = 2
        /\ OwnRuns[1].status = "running"
        /\ OwnRuns[2].status \in {"completed", "failed"}
        /\ OwnRuns[2].status = strand_status

\* C13: whatever the condition and the action did, a step.execute() that has
\* ended handed back a payload, never an exception, and left the step
\* Completed, Failed or Skipped, with the error text stored when Failed.
C13_StepNeverRaises ==
    \A s \in StepIds :
        /\ ~is_exception(returned[s])
        /\ ~is_exception(context.results[s])
        /\ (returned[s] # "none" \/ context.results[s] # "none")
              => /\ step_status[s] \in {"completed", "failed", "skipped"}
                 /\ (Failed(s) => step_error[s] # "none" /\ returned[s] # "result")
                 /\ (Skipped(s) => returned[s] \in {"skipped", "none"})

\* The action of one step raised, the condition of another raised, and both
\* calls have returned their error payloads.
C13_Witness ==
    \E a, b \in StepIds :
        /\ returned[a] = "error" /\ attempts[a] = 1 /\ step_error[a] = "exception"
        /\ returned[b] = "error" /\ attempts[b] = 0 /\ Failed(b)

\* C20: a step that is Completed is Completed in every later state, so the
\* number of Completed steps never decreases.
C20_CompletedIsStable ==
    [][\A s \in StepIds : Completed(s) => step_status'[s] = "completed"]_vars

\* Two steps completed in successive waves.
C20_Witness ==
    \E a, b \in StepIds : Completed(a) /\ Completed(b) /\ depends_on[b] = {a}


\* ---------------------------------------------------------------------------
\* C12: after a Strand executed through the Orchestrator completes,
\* get_workflow_runs(strand_id, 10) returns at least one record with status
\* 'completed', with no row of the strand id required in any other table.
\* Stated for the completed half: once execute_strand_async has returned,
\* the read holds a 'completed' row.
C12_CompletedRunIsRead ==
    (finished /\ pc = "returned")
        => \E i \in 1..Len(get_workflow_runs(StrandId, RunsLimit)) :
              get_workflow_runs(StrandId, RunsLimit)[i].status = "completed"

\* ---------------------------------------------------------------------------
\* C14: when execute_strand_async(strand) returns or raises with the strand
\* Completed or Failed, the strand's id is not a key of active_strands, on the
\* return path and on the raise path alike.
C14_CleanupOnEveryPath ==
    [][(~finished /\ finished' /\ strand_status \in {"completed", "failed"})
          => strands[driven].strand_id \notin DOMAIN active_strands']_vars

\* execute() raised with the strand Failed, the entry was there when the call
\* began to end, and it is gone.
C14_Witness ==
    /\ finished
    /\ pc = "raised"
    /\ strand_status = "failed"
    /\ strands[driven].strand_id \notin DOMAIN active_strands
    /\ Len(strands) = 1

\* ---------------------------------------------------------------------------
\* C15: in every state another caller can observe (between orchestrator calls
\* and at the awaits of a running strand), every strand held in active_strands
\* is Pending or Running.
C15_ActiveIsPendingOrRunning ==
    AtSuspension
        => \A id \in DOMAIN active_strands :
              status_of(active_strands[id]) \in {"pending", "running"}

\* execute_strand_async has ended with the driven strand Failed while another
\* strand, created meanwhile, is still held.
C15_Witness ==
    /\ finished
    /\ strand_status = "failed"
    /\ \E id \in DOMAIN active_strands : active_strands[id] # driven
    /\ strands[driven].strand_id \notin DOMAIN active_strands

\* ---------------------------------------------------------------------------
\* C16: every create_strand call yields a strand whose id differs from the id
\* of every other strand the orchestrator created, two calls for one strand
\* type within one clock second included.
C16_DistinctIds ==
    \A j, k \in 1..Len(strands) :
        j # k => strands[j].strand_id # strands[k].strand_id

\* ---------------------------------------------------------------------------
\* C17: create_strand with a strand type that is not registered raises
\* ValueError and leaves strand_definitions, active_strands, the strands built
\* and table workflow_runs as they were.
C17_UnknownTemplateChangesNothing ==
    [][\A ty \in TemplateNames :
          (ty \notin DOMAIN strand_definitions /\ create_strand(ty))
              => /\ last_call' = [op |-> "create_strand", kind |-> "ValueError"]
                 /\ UNCHANGED <<strand_definitions, strands, active_strands,
                                workflow_runs>>]_vars

\* The call raised while another strand type was registered and one strand
\* was held.
C17_Witness ==
    /\ last_call = [op |-> "create_strand", kind |-> "ValueError"]
    /\ Cardinality(DOMAIN strand_definitions) = 1
    /\ Cardinality(DOMAIN active_strands) = 1

\* ---------------------------------------------------------------------------
\* C18: register_strand_definition replaces the entry of its strand type and
\* no other, without raising; a strand created afterwards takes name,
\* description and steps from the entry then in force.
C18_LastWriteWins ==
    [][/\ \A ty \in TemplateNames, reg \in Registrations :
            register_strand_definition(ty, reg)
                => /\ strand_definitions'[ty] = reg
                   /\ DOMAIN strand_definitions' = DOMAIN strand_definitions \cup {ty}
                   /\ \A other \in DOMAIN strand_definitions \ {ty} :
                         strand_definitions'[other] = strand_definitions[other]
                   /\ last_call' = NoCall
       /\ Len(strands') > Len(strands)
            => LET strand == strands'[Len(strands')]
                   definition == strand_definitions[strand.strand_id[1]]
               IN /\ strand.name = definition.name
                  /\ strand.description = definition.description
                  /\ strand.steps = build_steps(definition.step_builder)]_vars

\* Two strands of one strand type were built by different builders: the type
\* was registered again between the two create_strand calls.
C18_Witness ==
    /\ Len(strands) = 2
    /\ strands[1].strand_id[1] = strands[2].strand_id[1]
    /\ strands[1].steps = StepOrder
    /\ strands[2].steps = <<>>
    /\ strands[2].name = "Custom"

\* ---------------------------------------------------------------------------
\* C19: get_strand_status(id) returns None or a snapshot with a progress in
\* [0, 1] for every strand a step builder can produce, one with no step
\* included.  Stated for the empty strand: the call never raises
\* ZeroDivisionError.
C19_StatusNeverRaises ==
    last_call.op = "get_strand_status" => last_call.kind # "ZeroDivisionError"

\* ---------------------------------------------------------------------------
\* C21: the status of a strand changes only Pending -> Running,
\* Running -> Completed and Running -> Failed; a strand set Completed is never
\* set Failed afterwards, also when the final Run Store write fails.
C21_StrandStatusTransitions ==
    [][\/ strand_status' = strand_status
       \/ <<strand_status, strand_status'>> \in
             {<<"pending", "running">>, <<"running", "completed">>,
              <<"running", "failed">>}]_vars

\* ---------------------------------------------------------------------------
\* C23: whenever a step has ended Failed and its gather has been processed,
\* the error list of the strand holds an entry for that step.
C23_FailedStepInErrors ==
    \A s \in StepIds :
        (Failed(s) /\ pc \in {"loop", "sleep", "except", "raised", "returned"})
            => InSeq(s, errors)

\* ---------------------------------------------------------------------------
\* C26: every status change of a step is Pending -> Running,
\* Running -> Completed, Running -> Failed or Pending -> Skipped; no step
\* becomes Failed without having been Running.
C26_StepStatusTransitions ==
    [][\A s \in StepIds :
          \/ step_status'[s] = step_status[s]
          \/ <<step_status[s], step_status'[s]>> \in
                {<<"pending", "running">>, <<"running", "completed">>,
                 <<"running", "failed">>, <<"pending", "skipped">>}]_vars

\* ---------------------------------------------------------------------------
\* C27: a step that goes from Pending to Skipped returns the 'skipped'
\* payload, and its attempt counter, result, error and completion time, the
\* context and every key the built-in actions write stay as they were.
C27_SkipHasNoSideEffect ==
    [][\A s \in StepIds :
          (step_status[s] = "pending" /\ step_status'[s] = "skipped")
              => /\ returned'[s] = "skipped"
                 /\ attempts'[s] = attempts[s]
                 /\ step_result'[s] = step_result[s]
                 /\ step_error'[s] = step_error[s]
                 /\ step_completed_at'[s] = step_completed_at[s]
                 /\ UNCHANGED <<context, builtin>>]_vars

\* A step was skipped in a wave that follows a completed step, whose payload
\* is in the context.
C27_Witness ==
    \E s, o \in StepIds :
        /\ Skipped(s)
        /\ returned[s] = "skipped"
        /\ attempts[s] = 0
        /\ context.results[o] = "result"

\* ---------------------------------------------------------------------------
\* C28: waves are separated by a barrier.  Every Running step belongs to the
\* executable set of the gather in progress, that set is computed only while
\* no step is Running, and a step leaves Pending only as a member of it.
C28_WaveBarrier ==
    [][/\ \A s \in StepIds :
            step_status'[s] = "running"
                => pc' = "gather" /\ InSeq(s, executable_steps')
       /\ executable_steps' # executable_steps
            => \A s \in StepIds : step_status[s] # "running"
       /\ \A s \in StepIds :
            (step_status[s] = "pending" /\ step_status'[s] # "pending")
                => InSeq(s, executable_steps)]_vars

\* A Pending step whose only dependency is Completed stays out of the wave
\* while another step of the wave is still Running.
C28_Witness ==
    \E a, b \in StepIds :
        /\ step_status[a] = "running"
        /\ step_status[b] = "pending"
        /\ depends_on[b] # {}
        /\ depends_on[b] \subseteq completed_step_ids
        /\ a \notin depends_on[b]
        /\ ~InSeq(b, executable_steps)

\* ---------------------------------------------------------------------------
\* C29: no record_workflow_run call fails because of an existing record: the
\* run id of every call is new, two calls within one clock second included.
C29_NoKeyCollision == exc.kind # "IntegrityError"

\* ---------------------------------------------------------------------------
\* C22: execute() called on a strand that is not Pending does not set the
\* status to Running again, does not reset the context and writes no further
\* Run Store record.  Stated for a strand that is Completed or Failed.
C22_ExecutedOnce ==
    [][(pc \in {"returned", "raised"} /\ strand_status \in {"completed", "failed"})
          => UNCHANGED <<strand_status, context, workflow_runs>>]_vars

\* ---------------------------------------------------------------------------
\* C24: with steps A and B without dependencies, C depending on both, and
\* actions that suspend: A and B are in the same executable set, neither is
\* Completed while the other is still Pending, and C is Running only with A
\* and B Completed.
C24_ConcurrentWave ==
    /\ InSeq("A", executable_steps) <=> InSeq("B", executable_steps)
    /\ (Completed("A") \/ Completed("B"))
          => step_status["A"] # "pending" /\ step_status["B"] # "pending"
    /\ step_status["C"] = "running" => Completed("A") /\ Completed("B")

\* C is Running after A and B ran once each, in one wave.
C24_Witness ==
    /\ step_status["C"] = "running"
    /\ attempts["A"] = 1
    /\ attempts["B"] = 1
    /\ executable_steps = <<"C">>

\* ---------------------------------------------------------------------------
\* C25: after the compliance-assessment strand completes, the control id of
\* every entry of context['remediation_plan'] is one of the missing controls
\* of context['gap_analysis_result'].
C25_PlanFromMissingOnly ==
    remediation_plan.set
        => \A entry \in remediation_plan.value :
              entry.control_id \in gap_analysis_result.value.missing_controls

\* ---------------------------------------------------------------------------
\* C30: in a strand of the family-assessment builder for family F, every
\* control the family_monitoring step checks has an id that starts with
\* 'F-', whatever the target controls are.
C30_FamilyControlsOnly ==
    (template = "family_assessment" /\ controls_checked.set)
        => \A ctrl \in controls_checked.value :
              StartsWith(ctrl, family \o <<"-">>)

====
